---- MODULE Spec2Model ----
(***************************************************************************)
(* Calendar status proxy: web/app/api/calendar/status/route.ts, POST.      *)
(*                                                                         *)
(* One handler invocation is a chain of three awaits:                      *)
(*   req.json()  ->  fetch(url, ...)  ->  resp.json()                      *)
(* and each settled await is one action of the model.  JavaScript values   *)
(* are modelled as tagged atoms ("s:" strings, "n:" numbers, "b:"          *)
(* booleans, null, undefined, and opaque nested objects and arrays); a     *)
(* JSON text is identified with the value it denotes, a JSON object with   *)
(* the function from its keys to its members.  URLs are sequences of       *)
(* characters.                                                             *)
(***************************************************************************)
EXTENDS Integers, Sequences, FiniteSets, TLC

VARIABLES env, pc, inbound, outbound, calls, upstream, response

vars == <<env, pc, inbound, outbound, calls, upstream, response>>

(***************************************************************************)
(* Bounds                                                                  *)
(***************************************************************************)
NumInv == 2

MaxBaseLen == 2

Inv == 1 .. NumInv

(***************************************************************************)
(* JavaScript values and JSON texts                                        *)
(***************************************************************************)
Undefined == "undefined"

Null == "null"

EmptyString == "s:"

Falsy == {Undefined, Null, EmptyString, "n:0", "b:false"}

NoMembers == [k \in {} |-> Undefined]

\* a value with own enumerable members (a plain object)
Obj(f) == [t |-> "object", a |-> "", f |-> f]

\* any other value: a primitive, or an array
Atom(x) == [t |-> "atom", a |-> x, f |-> NoMembers]

\* typeof x
TypeOf(x) ==
    IF x = Undefined THEN "undefined"
    ELSE IF x \in {"n:0", "n:7", "n:Infinity"} THEN "number"
    ELSE IF x \in {"b:true", "b:false"} THEN "boolean"
    ELSE IF x \in {Null, "obj", "arr"} THEN "object"
    ELSE "string"

\* JSON.parse of one numeric, string or keyword token: a numeral beyond the
\* range of a double decodes to Infinity
ParseToken(w) == IF w = "n:1e999" THEN "n:Infinity" ELSE w

\* JSON.stringify of one member value: a non-finite number encodes as null
StringifyToken(x) == IF x = "n:Infinity" THEN Null ELSE x

JSONParse(w) ==
    [t |-> w.t, a |-> ParseToken(w.a), f |-> [k \in DOMAIN w.f |-> ParseToken(w.f[k])]]

JSONStringify(v) ==
    [t |-> v.t, a |-> StringifyToken(v.a),
     f |-> [k \in {j \in DOMAIN v.f : v.f[j] # Undefined} |-> StringifyToken(v.f[k])]]

\* Body.json(): rejects on an absent, empty or malformed body
BodyJson(raw) ==
    IF raw.kind = "json" THEN [ok |-> TRUE, value |-> JSONParse(raw.text)]
    ELSE [ok |-> FALSE, value |-> Atom(Undefined)]

\* v?.key
OptionalMember(v, key) ==
    IF v.t = "object" /\ key \in DOMAIN v.f THEN v.f[key] ELSE Undefined

\* x || d
OrElse(x, d) == IF x \in Falsy THEN d ELSE x

(***************************************************************************)
(* Lines 4-9: decoding the inbound body                                    *)
(***************************************************************************)
DecodedBody(raw) ==
    IF BodyJson(raw).ok THEN BodyJson(raw).value ELSE Obj(NoMembers)

\* variant: the member is read under the outbound key
userIdWrongKey(body) == OrElse(OptionalMember(body, "user_id"), EmptyString)

userId(body) == OrElse(OptionalMember(body, "userId"), EmptyString)

connectionRequestId(body) == OrElse(OptionalMember(body, "connectionRequestId"), EmptyString)

(***************************************************************************)
(* Lines 11-12: the upstream URL                                           *)
(***************************************************************************)
DefaultBase == <<"h","t","t","p",":","/","/","s","e","r","v","e","r",":","8","0","0","0">>

StatusPath == <<"/","a","p","i","/","v","1","/","c","a","l","e","n","d","a","r","/","s","t","a","t","u","s">>

\* variant: no fallback to the default base
serverBaseNoDefault(e) == e.value

\* process.env.PY_SERVER_URL || 'http://server:8000'
serverBase(e) == IF e.set /\ e.value # <<>> THEN e.value ELSE DefaultBase

\* variant: the base is used as configured
KeepTrailingSlash(s) == s

\* s.replace(/\/$/, '')
StripTrailingSlash(s) ==
    IF Len(s) > 0 /\ s[Len(s)] = "/" THEN SubSeq(s, 1, Len(s) - 1) ELSE s

url(e) == StripTrailingSlash(serverBase(e)) \o StatusPath

(***************************************************************************)
(* Lines 15-19: the request handed to fetch                                *)
(***************************************************************************)
RequestHeaders == ("Content-Type" :> "application/json") @@ ("Accept" :> "application/json")

\* variant: the decoded body is spread into the outbound body
FetchRequestSpread(body, e) ==
    [url     |-> url(e),
     method  |-> "POST",
     headers |-> RequestHeaders,
     body    |-> JSONStringify(Obj([user_id |-> userId(body),
                                    connection_request_id |-> connectionRequestId(body)]
                                   @@ body.f))]

FetchRequest(body, e) ==
    [url     |-> url(e),
     method  |-> "POST",
     headers |-> RequestHeaders,
     body    |-> JSONStringify(Obj([user_id |-> userId(body),
                                    connection_request_id |-> connectionRequestId(body)]))]

NoRequest == [url |-> <<>>, method |-> "", headers |-> NoMembers, body |-> Atom(Undefined)]

(***************************************************************************)
(* Lines 20-30: the two return statements                                  *)
(***************************************************************************)
BadGateway == 502

ResponseHeaders == [k \in {"Content-Type"} |-> "application/json; charset=utf-8"]

NoError == [message |-> Undefined, string |-> EmptyString]

\* statuses the Response constructor refuses together with a non-null body
NullBodyStatus == {101, 204, 205, 304}

\* new Response(text, {status}) with a string body: RangeError outside
\* 200..599, TypeError on a null-body status
ResponseInit(status) ==
    IF status < 200 \/ status > 599
    THEN [ok |-> FALSE,
          error |-> [message |-> "s:init[\"status\"] must be in the range of 200 to 599, inclusive.",
                     string  |-> "s:RangeError: init[\"status\"] must be in the range of 200 to 599, inclusive."]]
    ELSE IF status \in NullBodyStatus
    THEN [ok |-> FALSE,
          error |-> [message |-> "s:Response constructor: Invalid response status code " \o ToString(status),
                     string  |-> "s:TypeError: Response constructor: Invalid response status code " \o ToString(status)]]
    ELSE [ok |-> TRUE, error |-> NoError]

\* variant: e?.message with no fallback
ErrorDetailMessageOnly(e) == e.message

\* variant: String(e) alone
ErrorDetailStringOnly(e) == e.string

\* e?.message || String(e)
ErrorDetail(e) == OrElse(e.message, e.string)

\* lines 26-29
ErrorResponse(e) ==
    [exit    |-> "envelope",
     status  |-> BadGateway,
     headers |-> ResponseHeaders,
     body    |-> JSONStringify(Obj([ok |-> "b:false", error |-> "s:Upstream error",
                                    detail |-> ErrorDetail(e)]))]

\* variant: a body that does not decode is relayed as undefined
ResponseDataUndefined(raw) == IF BodyJson(raw).ok THEN BodyJson(raw).value ELSE Atom(Undefined)

\* resp.json().catch(() => ({}))
ResponseData(raw) == IF BodyJson(raw).ok THEN BodyJson(raw).value ELSE Obj(NoMembers)

\* variant: the response is built outside the try block, a throw escapes
RelayResponseUncaught(resp) ==
    IF ResponseInit(resp.status).ok
    THEN [exit    |-> "relay",
          status  |-> resp.status,
          headers |-> ResponseHeaders,
          body    |-> JSONStringify(ResponseData(resp.body))]
    ELSE [exit |-> "throw", status |-> 0, headers |-> NoMembers, body |-> Atom(Undefined)]

\* lines 20-24, and the catch of line 25 when the constructor throws
RelayResponse(resp) ==
    IF ResponseInit(resp.status).ok
    THEN [exit    |-> "relay",
          status  |-> resp.status,
          headers |-> ResponseHeaders,
          body    |-> JSONStringify(ResponseData(resp.body))]
    ELSE ErrorResponse(ResponseInit(resp.status).error)

NoResponse == [exit |-> "none", status |-> 0, headers |-> NoMembers, body |-> Atom(Undefined)]

(***************************************************************************)
(* Inputs                                                                  *)
(***************************************************************************)
JsonText(v) == [kind |-> "json", text |-> v]

NotJson == [kind |-> "text", text |-> Atom(Undefined)]

EmptyBody == [kind |-> "empty", text |-> Atom(Undefined)]

MemberTokens == {"s:", "s:u1", "n:0", "n:7", "n:1e999", "b:false", "b:true", "null", "obj", "arr"}

StatusRequests ==
    UNION {[K -> MemberTokens] : K \in SUBSET {"userId", "connectionRequestId"}}

InboundBodies ==
    {JsonText(Obj(f)) : f \in StatusRequests}
    \cup {JsonText(Obj(f @@ ("extra" :> "s:x"))) : f \in StatusRequests}
    \cup {JsonText(Atom(a)) : a \in {"null", "n:7", "s:u1", "arr"}}
    \cup {NotJson, EmptyBody}

Statuses == {200, 204, 205, 304, 404, 500, 999}

\* statuses whose message carries no body on the wire
BodilessStatus == {204, 304}

UpstreamBodies ==
    {JsonText(Obj([ok |-> "b:true"])), JsonText(Obj([error |-> "s:not found"])),
     JsonText(Atom("null")), NotJson, EmptyBody}

FetchResponses ==
    {[status |-> s, body |-> b] : s \in Statuses \ BodilessStatus, b \in UpstreamBodies}
    \cup {[status |-> s, body |-> EmptyBody] : s \in BodilessStatus}

FetchErrors ==
    {[message |-> "s:fetch failed", string |-> "s:TypeError: fetch failed"],
     [message |-> "s:Failed to parse URL", string |-> "s:TypeError: Failed to parse URL"],
     [message |-> EmptyString, string |-> "s:Error"]}

RECURSIVE SeqsUpTo(_, _)
SeqsUpTo(S, n) ==
    IF n = 0 THEN {<<>>}
    ELSE SeqsUpTo(S, n - 1) \cup {Append(s, c) : s \in SeqsUpTo(S, n - 1), c \in S}

Environments ==
    {[set |-> FALSE, value |-> <<>>]}
    \cup {[set |-> TRUE, value |-> b] : b \in SeqsUpTo({"x", "/"}, MaxBaseLen)}

ConcurrentBodies ==
    {JsonText(Obj([userId |-> "s:u1", connectionRequestId |-> "s:u1"])),
     JsonText(Obj([userId |-> "n:7"])), NotJson}

ConcurrentResponses ==
    {[status |-> 200, body |-> JsonText(Obj([ok |-> "b:true"]))],
     [status |-> 404, body |-> JsonText(Obj([error |-> "s:not found"]))]}

ConcurrentErrors == {[message |-> "s:fetch failed", string |-> "s:TypeError: fetch failed"]}

(***************************************************************************)
(* State machine                                                           *)
(***************************************************************************)
Pending == [kind |-> "pending", status |-> 0, body |-> EmptyBody, error |-> NoError]

Init ==
    /\ env \in Environments
    /\ pc = [i \in Inv |-> "idle"]
    /\ inbound = [i \in Inv |-> EmptyBody]
    /\ outbound = [i \in Inv |-> NoRequest]
    /\ calls = [i \in Inv |-> 0]
    /\ upstream = [i \in Inv |-> Pending]
    /\ response = [i \in Inv |-> NoResponse]

\* variant: body kept in one place for all invocations
bodyShared(i) == DecodedBody(inbound[1])

\* the local variable body of invocation i, lines 4-7
body(i) == DecodedBody(inbound[i])

\* the value e caught at line 25
caught(i) == upstream[i].error

\* POST is entered with a request; req.json() is awaited (lines 3-6)
Receive(i, Bodies) ==
    /\ pc[i] = "idle"
    /\ \E raw \in Bodies : inbound' = [inbound EXCEPT ![i] = raw]
    /\ pc' = [pc EXCEPT ![i] = "req.json"]
    /\ UNCHANGED <<env, outbound, calls, upstream, response>>

\* variant: a body that does not parse is answered 400 without an upstream call
CallFetchStrict(i) ==
    /\ pc[i] = "req.json"
    /\ IF BodyJson(inbound[i]).ok
       THEN /\ outbound' = [outbound EXCEPT ![i] = FetchRequest(DecodedBody(inbound[i]), env)]
            /\ calls' = [calls EXCEPT ![i] = @ + 1]
            /\ pc' = [pc EXCEPT ![i] = "fetch"]
            /\ UNCHANGED response
       ELSE /\ response' = [response EXCEPT ![i] =
                               [exit |-> "reject", status |-> 400,
                                headers |-> ResponseHeaders, body |-> Obj(NoMembers)]]
            /\ pc' = [pc EXCEPT ![i] = "done"]
            /\ UNCHANGED <<outbound, calls>>
    /\ UNCHANGED <<env, inbound, upstream>>

\* variant: fetch is not awaited, the handler answers at once
CallFetchNoAwait(i) ==
    /\ pc[i] = "req.json"
    /\ outbound' = [outbound EXCEPT ![i] = FetchRequest(DecodedBody(inbound[i]), env)]
    /\ calls' = [calls EXCEPT ![i] = @ + 1]
    /\ response' = [response EXCEPT ![i] =
                       [exit |-> "relay", status |-> 200,
                        headers |-> ResponseHeaders, body |-> Obj(NoMembers)]]
    /\ pc' = [pc EXCEPT ![i] = "done"]
    /\ UNCHANGED <<env, inbound, upstream>>

\* variant: the request carries a sequence number kept across invocations
CallFetchSequenced(i) ==
    /\ pc[i] = "req.json"
    /\ outbound' = [outbound EXCEPT ![i] =
                       [FetchRequest(DecodedBody(inbound[i]), env) EXCEPT
                           !.headers = @ @@ ("X-Sequence" :>
                                ToString(Cardinality({j \in Inv : calls[j] > 0})))]]
    /\ calls' = [calls EXCEPT ![i] = @ + 1]
    /\ pc' = [pc EXCEPT ![i] = "fetch"]
    /\ UNCHANGED <<env, inbound, upstream, response>>

\* req.json() settles; lines 7-19 run up to the await of fetch
CallFetch(i) ==
    /\ pc[i] = "req.json"
    /\ outbound' = [outbound EXCEPT ![i] = FetchRequest(body(i), env)]
    /\ calls' = [calls EXCEPT ![i] = @ + 1]
    /\ pc' = [pc EXCEPT ![i] = "fetch"]
    /\ UNCHANGED <<env, inbound, upstream, response>>

\* fetch resolves with the upstream's response; resp.json() is awaited (line 20)
FetchResolve(i, Responses) ==
    /\ pc[i] = "fetch"
    /\ \E r \in Responses :
          upstream' = [upstream EXCEPT ![i] =
                          [kind |-> "resolved", status |-> r.status, body |-> r.body, error |-> NoError]]
    /\ pc' = [pc EXCEPT ![i] = "resp.json"]
    /\ UNCHANGED <<env, inbound, outbound, calls, response>>

\* variant: a rejected fetch is retried once before the catch block returns
FetchRejectRetry(i, Errors) ==
    /\ pc[i] = "fetch"
    /\ \E e \in Errors :
          upstream' = [upstream EXCEPT ![i] =
                          [kind |-> "rejected", status |-> 0, body |-> EmptyBody, error |-> e]]
    /\ IF calls[i] < 2
       THEN /\ calls' = [calls EXCEPT ![i] = @ + 1]
            /\ UNCHANGED <<pc, response>>
       ELSE /\ response' = [response EXCEPT ![i] = ErrorResponse(upstream'[i].error)]
            /\ pc' = [pc EXCEPT ![i] = "done"]
            /\ UNCHANGED calls
    /\ UNCHANGED <<env, inbound, outbound>>

\* fetch rejects; the catch block returns (lines 25-30)
FetchReject(i, Errors) ==
    /\ pc[i] = "fetch"
    /\ \E e \in Errors :
          upstream' = [upstream EXCEPT ![i] =
                          [kind |-> "rejected", status |-> 0, body |-> EmptyBody, error |-> e]]
    /\ response' = [response EXCEPT ![i] = ErrorResponse(caught(i)')]
    /\ pc' = [pc EXCEPT ![i] = "done"]
    /\ UNCHANGED <<env, inbound, outbound, calls>>

\* resp.json() settles; lines 20-24 return, or throw into the catch block
Return(i) ==
    /\ pc[i] = "resp.json"
    /\ response' = [response EXCEPT ![i] = RelayResponse(upstream[i])]
    /\ pc' = [pc EXCEPT ![i] = "done"]
    /\ UNCHANGED <<env, inbound, outbound, calls, upstream>>

\* one invocation, every input
Next ==
    \/ Receive(1, InboundBodies)
    \/ CallFetch(1)
    \/ FetchResolve(1, FetchResponses)
    \/ FetchReject(1, FetchErrors)
    \/ Return(1)

Spec == Init /\ [][Next]_vars

\* every await of the handler settles: the runtime resumes the handler, and
\* the upstream call completes or fails
Fairness ==
    /\ WF_vars(CallFetch(1))
    /\ WF_vars(FetchResolve(1, FetchResponses) \/ FetchReject(1, FetchErrors))
    /\ WF_vars(Return(1))

SpecFair == Spec /\ Fairness

\* NumInv invocations in flight at once
NextConcurrent ==
    \E i \in Inv :
        \/ Receive(i, ConcurrentBodies)
        \/ CallFetch(i)
        \/ FetchResolve(i, ConcurrentResponses)
        \/ FetchReject(i, ConcurrentErrors)
        \/ Return(i)

SpecConcurrent == Init /\ [][NextConcurrent]_vars

(***************************************************************************)
(* Properties                                                              *)
(***************************************************************************)
\* the invocations whose fetch call has been issued
Issued == {i \in Inv : pc[i] \in {"fetch", "resp.json", "done"}}

Returned == {i \in Inv : pc[i] = "done"}

\* the inbound body is the JSON text of an object with both fields
HasBothFields(raw) ==
    /\ raw.kind = "json"
    /\ raw.text.t = "object"
    /\ {"userId", "connectionRequestId"} \subseteq DOMAIN raw.text.f

\* what a member token of the inbound text is forwarded as
Forwarded(w) ==
    IF w \in {"s:", "n:0", "b:false", "null"} THEN "s:"
    ELSE IF w = "n:1e999" THEN "null"
    ELSE w

\* C1 as stated: whenever the inbound body is a JSON object with fields userId
\* and connectionRequestId, the outbound body is {user_id: userId,
\* connection_request_id: connectionRequestId}, each value unchanged.
C1_ForwardedUnchanged ==
    \A i \in Issued :
        HasBothFields(inbound[i]) =>
            outbound[i].body = Obj([user_id |-> inbound[i].text.f["userId"],
                                    connection_request_id |-> inbound[i].text.f["connectionRequestId"]])

\* C1 amended: the outbound body has the two renamed keys; a truthy member
\* (non-empty string, non-zero number, true, object, array) is forwarded
\* unchanged, a falsy one ("", 0, false, null) as "", a numeral beyond double
\* range as null.
C1_ForwardedOrDefaulted ==
    \A i \in Issued :
        HasBothFields(inbound[i]) =>
            outbound[i].body = Obj([user_id |-> Forwarded(inbound[i].text.f["userId"]),
                                    connection_request_id |-> Forwarded(inbound[i].text.f["connectionRequestId"])])

C1_Witness ==
    \E i \in Returned :
        /\ HasBothFields(inbound[i])
        /\ inbound[i].text.f["userId"] = "s:u1"
        /\ inbound[i].text.f["connectionRequestId"] = "n:0"
        /\ outbound[i].body.f["user_id"] = "s:u1"

\* C2: an empty or unparsable inbound body is not rejected: the upstream call
\* is still made, with body {user_id: "", connection_request_id: ""}, and the
\* response is the one the upstream outcome decides.
C2_MalformedTolerated ==
    \A i \in Inv :
        inbound[i].kind # "json" =>
            /\ pc[i] \in {"fetch", "resp.json", "done"} =>
                  /\ calls[i] = 1
                  /\ outbound[i].body = Obj([user_id |-> "s:", connection_request_id |-> "s:"])
            /\ pc[i] = "done" => upstream[i].kind \in {"resolved", "rejected"}

C2_Witness ==
    \E i \in Returned :
        /\ inbound[i].kind = "text"
        /\ calls[i] = 1
        /\ response[i].exit = "relay"

\* C3 as stated: a completed upstream exchange with status s and JSON body b
\* is answered with status s and body b, for every s.
C3_Relayed ==
    \A i \in Returned :
        (upstream[i].kind = "resolved" /\ upstream[i].body.kind = "json") =>
            /\ response[i].status = upstream[i].status
            /\ response[i].body = upstream[i].body.text

\* C4 as stated: the 502 envelope is returned only when the fetch itself
\* threw or rejected; a completed exchange always takes the relay exit.
C4_EnvelopeOnlyOnFailure ==
    \A i \in Returned :
        response[i].exit = "envelope" => upstream[i].kind = "rejected"

\* C5: when the fetch rejects, the response has status 502 and body
\* {ok: false, error: "Upstream error", detail: text of the failure}.
C5_UpstreamError ==
    \A i \in Returned :
        upstream[i].kind = "rejected" =>
            /\ response[i].status = 502
            /\ response[i].body =
                  Obj([ok |-> "b:false", error |-> "s:Upstream error",
                       detail |-> IF upstream[i].error.message # "s:"
                                  THEN upstream[i].error.message
                                  ELSE upstream[i].error.string])

C5_Witness ==
    \E i \in Returned :
        /\ upstream[i].kind = "rejected"
        /\ upstream[i].error.message = "s:fetch failed"
        /\ response[i].status = 502

\* C6 as stated: a completed exchange whose body is not JSON is answered with
\* the upstream's own status and body {}, never with 502.
C6_UndecodableBody ==
    \A i \in Returned :
        (upstream[i].kind = "resolved" /\ upstream[i].body.kind # "json") =>
            /\ response[i].exit = "relay"
            /\ response[i].status = upstream[i].status
            /\ response[i].body = Obj(NoMembers)

\* C7: every invocation makes exactly one upstream call: none before the
\* inbound body is decoded, one from then on, on both exit paths.
C7_ExactlyOneCall ==
    \A i \in Inv :
        calls[i] = IF pc[i] \in {"idle", "req.json"} THEN 0 ELSE 1

C7_Witness ==
    \E i \in Returned :
        /\ upstream[i].kind = "rejected"
        /\ response[i].exit = "envelope"
        /\ inbound[i].kind = "empty"
        /\ calls[i] = 1

\* C8 as stated: unset, the target is http://server:8000/api/v1/calendar/status;
\* set, it is the configured base followed by /api/v1/calendar/status.
C8_TargetIsBasePlusPath ==
    \A i \in Issued :
        outbound[i].url = (IF env.set THEN env.value ELSE DefaultBase) \o StatusPath

\* C8 amended: unset or empty, the target is the default base followed by the
\* path; set to a non-empty value, it is that value less one trailing slash,
\* if it has one, followed by the path.
C8_Target ==
    \A i \in Issued :
        outbound[i].url =
            IF ~env.set \/ Len(env.value) = 0
            THEN DefaultBase \o StatusPath
            ELSE IF env.value[Len(env.value)] = "/"
            THEN SubSeq(env.value, 1, Len(env.value) - 1) \o StatusPath
            ELSE env.value \o StatusPath

C8_Witness ==
    /\ env.set
    /\ env.value = <<"x">>
    /\ \E i \in Issued : outbound[i].url = <<"x">> \o StatusPath

EndsInSlash(s) == Len(s) > 0 /\ s[Len(s)] = "/"

\* the character before the path, if any, is a slash
DoubleSlashAtJoin(u) ==
    /\ Len(u) > Len(StatusPath)
    /\ u[Len(u) - Len(StatusPath)] = "/"

\* C9 as stated: for every configured base that ends in a slash, the outbound
\* URL has no double slash between the base and api/v1/calendar/status.
C9_NeverDoubleSlash ==
    \A i \in Issued :
        (env.set /\ EndsInSlash(env.value)) => ~DoubleSlashAtJoin(outbound[i].url)

\* C9 amended: for a configured base that ends in a slash, exactly one
\* trailing slash is removed before the path is appended; the join has no
\* double slash when the base ends in a single slash.
C9_OneSlashStripped ==
    \A i \in Issued :
        (env.set /\ EndsInSlash(env.value)) =>
            /\ outbound[i].url = SubSeq(env.value, 1, Len(env.value) - 1) \o StatusPath
            /\ ~EndsInSlash(SubSeq(env.value, 1, Len(env.value) - 1))
                  => ~DoubleSlashAtJoin(outbound[i].url)

C9_Witness ==
    /\ env.set
    /\ env.value = <<"x", "/">>
    /\ \E i \in Issued : outbound[i].url = <<"x">> \o StatusPath

\* the state of invocation i
Local(i) == <<pc[i], inbound[i], outbound[i], calls[i], upstream[i], response[i]>>

OwnInputsDecide ==
    \A i \in Inv :
        /\ i \in Issued => outbound[i] = FetchRequest(DecodedBody(inbound[i]), env)
        /\ i \in Returned =>
              response[i] = IF upstream[i].kind = "rejected"
                            THEN ErrorResponse(upstream[i].error)
                            ELSE RelayResponse(upstream[i])

OthersUntouched ==
    \A i, j \in Inv : (i # j /\ Local(i)' # Local(i)) => Local(j)' = Local(j)

\* C10: under every interleaving of concurrent invocations, the outbound
\* request and the response of an invocation are decided by its own inbound
\* body, the configuration and its own upstream outcome, and a step of one
\* invocation changes nothing of another.
C10_Independent == []OwnInputsDecide /\ [][OthersUntouched /\ env' = env]_vars

C10_Witness ==
    \E i, j \in Inv :
        /\ i # j
        /\ pc[i] = "done" /\ pc[j] = "done"
        /\ inbound[i] # inbound[j]
        /\ upstream[i].kind = "resolved" /\ upstream[j].kind = "rejected"
        /\ outbound[i] # outbound[j]

\* C11 as stated: for every inbound body, also one whose userId or
\* connectionRequestId is not a string, the user_id and connection_request_id
\* members of the outbound body are strings.
C11_OutboundStrings ==
    \A i \in Issued :
        /\ TypeOf(outbound[i].body.f["user_id"]) = "string"
        /\ TypeOf(outbound[i].body.f["connection_request_id"]) = "string"

\* the value the catch block of invocation i received
Thrown(i) ==
    IF upstream[i].kind = "rejected" THEN upstream[i].error
    ELSE ResponseInit(upstream[i].status).error

\* C12: on the 502 path detail is a non-empty string: the failure's message
\* when that is non-empty, otherwise the failure's string form.
C12_DetailNonEmpty ==
    \A i \in Returned :
        response[i].exit = "envelope" =>
            /\ "detail" \in DOMAIN response[i].body.f
            /\ TypeOf(response[i].body.f["detail"]) = "string"
            /\ response[i].body.f["detail"] # EmptyString
            /\ response[i].body.f["detail"] =
                  IF Thrown(i).message # EmptyString THEN Thrown(i).message ELSE Thrown(i).string

C12_Witness ==
    \E i \in Returned :
        /\ upstream[i].kind = "rejected"
        /\ upstream[i].error.message = EmptyString
        /\ response[i].exit = "envelope"
        /\ response[i].body.f["detail"] = "s:Error"

OneOfTwoExits ==
    \A i \in Inv :
        /\ pc[i] = "done" => response[i].exit \in {"relay", "envelope"}
        /\ pc[i] # "done" => response[i] = NoResponse

ResponseKept ==
    \A i \in Inv : response[i] # NoResponse => response'[i] = response[i]

\* C13: for every inbound body and upstream outcome an invocation returns
\* exactly one response, through the relay exit or the 502 exit, and no
\* exception escapes, provided the upstream call completes or fails.
C13_AlwaysResponds ==
    /\ []OneOfTwoExits
    /\ [][ResponseKept]_vars
    /\ \A i \in {1} : (pc[i] = "req.json") ~> (pc[i] = "done")

C13_Witness ==
    \E i \in Returned :
        /\ inbound[i].kind = "text"
        /\ upstream[i].kind = "resolved"
        /\ upstream[i].status = 204
        /\ response[i].exit = "envelope"

InOrder ==
    \A i \in Inv :
        /\ outbound[i] # NoRequest => pc[i] \notin {"idle", "req.json"}
        /\ upstream[i].kind # "pending" => (outbound[i] # NoRequest /\ calls[i] = 1)
        /\ response[i] # NoResponse => upstream[i].kind \in {"resolved", "rejected"}

StepsInOrder ==
    \A i \in Inv :
        pc'[i] # pc[i] =>
            <<pc[i], pc'[i]>> \in {<<"idle", "req.json">>, <<"req.json", "fetch">>,
                                   <<"fetch", "resp.json">>, <<"fetch", "done">>,
                                   <<"resp.json", "done">>}

\* C14: within one invocation the inbound body is decoded, then the outbound
\* call is issued, then the upstream outcome is observed, then the response is
\* returned; no response is returned before the upstream call has completed or
\* failed.
C14_Ordered == []InOrder /\ [][StepsInOrder]_vars

C14_Witness ==
    \E i \in Inv :
        /\ pc[i] = "resp.json"
        /\ upstream[i].kind = "resolved"
        /\ outbound[i] # NoRequest
        /\ response[i] = NoResponse

\* C15: two invocations with the same inbound body under the same
\* configuration issue identical outbound requests and, given the same
\* upstream outcome, return identical responses.
C15_Deterministic ==
    \A i, j \in Inv :
        inbound[i] = inbound[j] =>
            /\ (i \in Issued /\ j \in Issued) => outbound[i] = outbound[j]
            /\ (i \in Returned /\ j \in Returned /\ upstream[i] = upstream[j])
                  => response[i] = response[j]

C15_Witness ==
    \E i, j \in Returned :
        /\ i # j
        /\ inbound[i] = inbound[j]
        /\ inbound[i].kind = "json"
        /\ upstream[i] = upstream[j]
        /\ upstream[i].kind = "resolved"
        /\ response[i] = response[j]
        /\ response[i].exit = "relay"

\* C16: the outbound body has exactly the keys user_id and
\* connection_request_id, built from the inbound userId and
\* connectionRequestId alone (any other inbound member is dropped), and the
\* outbound method and headers are always POST, Content-Type:
\* application/json, Accept: application/json.
C16_OnlyTwoFields ==
    \A i \in Issued :
        /\ outbound[i].body.t = "object"
        /\ DOMAIN outbound[i].body.f = {"user_id", "connection_request_id"}
        /\ \A k \in DOMAIN outbound[i].body.f : outbound[i].body.f[k] # "s:x"
        /\ outbound[i].method = "POST"
        /\ DOMAIN outbound[i].headers = {"Content-Type", "Accept"}
        /\ outbound[i].headers["Content-Type"] = "application/json"
        /\ outbound[i].headers["Accept"] = "application/json"
        /\ outbound[i].url = url(env)

C16_Witness ==
    \E i \in Issued :
        /\ inbound[i].kind = "json"
        /\ inbound[i].text.t = "object"
        /\ DOMAIN inbound[i].text.f = {"userId", "connectionRequestId", "extra"}
        /\ inbound[i].text.f["userId"] = "s:u1"
        /\ DOMAIN outbound[i].body.f = {"user_id", "connection_request_id"}

\* v is the value of a JSON text: JSON.stringify returned a string for it
IsJsonText(v) ==
    /\ v.a \notin {Undefined, "n:Infinity"}
    /\ \A k \in DOMAIN v.f : v.f[k] \notin {Undefined, "n:Infinity"}

\* C17: every response, relayed or 502, carries Content-Type:
\* application/json; charset=utf-8 and a body that is a JSON encoding,
\* whatever body the upstream sent.
C17_JsonResponse ==
    \A i \in Returned :
        /\ DOMAIN response[i].headers = {"Content-Type"}
        /\ response[i].headers["Content-Type"] = "application/json; charset=utf-8"
        /\ IsJsonText(response[i].body)

C17_Witness ==
    \E i \in Returned :
        /\ upstream[i].kind = "resolved"
        /\ upstream[i].body.kind = "text"
        /\ upstream[i].status = 200
        /\ response[i].exit = "relay"
        /\ response[i].body = Obj(NoMembers)
        /\ response[i].headers["Content-Type"] = "application/json; charset=utf-8"

====
